---- MODULE Spec2Model ----
(***************************************************************************)
(* A model of scripts/upmix.py: a linear script that builds two native     *)
(* tools, stages a stereo recording, renders it to 16 speaker channels,    *)
(* remaps them onto a 20-channel file, corrects and normalises it, sets    *)
(* the mixer of the audio interface and plays the result.  Every external  *)
(* command goes through run(), which aborts the script (a failed assert)   *)
(* as soon as os.system reports a status other than 0.                     *)
(***************************************************************************)
EXTENDS Integers, Sequences, FiniteSets, TLC

(* ------------------------------ bounds --------------------------------- *)
\* samples per channel of a modelled signal
NumSamples == 2
\* largest amplitude step of a test signal
MaxAmp == 1
\* largest exit code a failing tool returns besides 127 (command not found)
MaxExitCode == 2

(* ------------------------- locations and files ------------------------- *)
InputWav == "/tmp/input.wav"
DownDryWav == "/tmp/down-dry.wav"
SpeakersWav == "/tmp/16speakers.wav"
Down3_20Wav == "/tmp/down3-20.wav"
Down3ModWav == "/tmp/down3-mod.wav"
Down3NormWav == "/tmp/down3-norm.wav"
RevolveExe == "./build/revolve"
DriverModelExe == "./build/driver_model"
\* a recording somewhere outside /tmp
UserWav == "/home/user/concert.wav"

ArtifactLocs == {InputWav, DownDryWav, SpeakersWav, Down3_20Wav, Down3ModWav, Down3NormWav}
Locations == ArtifactLocs \cup {UserWav}
\* values sys.argv[1] takes in the model: an outside path, or one of the /tmp names
SourcePaths == {UserWav, DownDryWav, InputWav}

\* number of channels ./build/revolve renders ("16speakers")
SynthChannels == 16

(* ------------------------------ the script ----------------------------- *)
\* remix arguments of line 50: "0" is a silent output, "<ch>v<whole>[.<tenth>]"
\* takes input channel ch with a volume multiplier
Silent == <<>>
In(ch, whole, tenth) == <<[ch |-> ch, whole |-> whole, tenth |-> tenth]>>
\* variant: the last output repeats input 15, input 16 goes nowhere
RemixSpecLossy ==
  << Silent, Silent,
     In(1, 1, 0), In(2, 1, 0), In(3, 1, 0), In(4, 1, 0),
     In(5, 1, 0), In(6, 1, 0), In(7, 1, 0), In(8, 1, 0),
     Silent, Silent,
     In(9, 1, 0), In(10, 1, 0), In(11, 1, 0), In(12, 1, 0),
     In(13, 1, 0), In(14, 1, 0), In(15, 1, 0), In(15, 1, 0) >>
RemixSpec ==
  << Silent, Silent,
     In(1, 1, 0), In(2, 1, 0), In(3, 1, 0), In(4, 1, 0),
     In(5, 1, 0), In(6, 1, 0), In(7, 1, 0), In(8, 1, 0),
     Silent, Silent,
     In(9, 1, 0), In(10, 1, 0), In(11, 1, 0), In(12, 1, 0),
     In(13, 1, 0), In(14, 1, 0), In(15, 1, 0), In(16, 1, 0) >>

\* line 50 with one input channel beyond the 16 of the rendering
RemixOutOfRange == [RemixSpec EXCEPT ![20] = In(17, 1, 0)]
\* line 50 with the same input channel twice in one output ("1v1,1v1")
RemixDuplicate == [RemixSpec EXCEPT ![3] = In(1, 1, 0) \o In(1, 1, 0)]
\* remix arguments line 50 can be written with
Matrices == {RemixSpec, RemixOutOfRange, RemixDuplicate}

\* values of the two amixer cset commands (lines 56 and 57)
VolumeValues == <<127, 127, 127, 127, 127, 127, 127, 127, 122, 122, 122, 122, 122, 122, 122, 122>>
SwitchValues == <<"on", "on", "on", "on", "on", "on", "on", "on", "on", "on", "on", "on", "on", "on", "on", "on">>

RunStmt(line, tool, reads, writes, uses) ==
  [op |-> "run", line |-> line, tool |-> tool, reads |-> reads, writes |-> writes, uses |-> uses]

ArgvStmt == [op |-> "argv", line |-> 34, tool |-> "", reads |-> {}, writes |-> {}, uses |-> {}]
ExitStmt == [op |-> "exit", line |-> 62, tool |-> "", reads |-> {}, writes |-> {}, uses |-> {}]
CmakeStmt == RunStmt(31, "cmake", {}, {}, {})
MakeStmt == RunStmt(32, "make", {}, {}, {})
\* variant: the two arguments of cp in the other order
CpStmtReversed(f) == RunStmt(36, "cp", {InputWav}, {f}, {})
CpStmt(f) == RunStmt(36, "cp", {f}, {InputWav}, {})
SoxRateStmt == RunStmt(38, "sox_rate", {InputWav}, {DownDryWav}, {})
\* variant: revolve is pointed at a file no earlier statement writes
RevolveStmtWrongInput == RunStmt(40, "revolve", {Down3ModWav}, {SpeakersWav}, {RevolveExe})
RevolveStmt == RunStmt(40, "revolve", {DownDryWav}, {SpeakersWav}, {RevolveExe})
SoxRemixStmt == RunStmt(50, "sox_remix", {SpeakersWav}, {Down3_20Wav}, {})
\* variant: driver_model is told to write over the file it reads
DriverModelStmtInPlace == RunStmt(52, "driver_model", {Down3_20Wav}, {Down3_20Wav}, {DriverModelExe})
DriverModelStmt == RunStmt(52, "driver_model", {Down3_20Wav}, {Down3ModWav}, {DriverModelExe})
\* variant: the last sox command is pointed at the stereo file
SoxNormStmtWrongInput == RunStmt(54, "sox_norm", {DownDryWav}, {Down3NormWav}, {})
SoxNormStmt == RunStmt(54, "sox_norm", {Down3ModWav}, {Down3NormWav}, {})
AmixerVolumeStmt == RunStmt(56, "amixer_volume", {}, {}, {})
AmixerSwitchStmt == RunStmt(57, "amixer_switch", {}, {}, {})
AplayStmt == RunStmt(59, "aplay", {Down3NormWav}, {}, {})

\* variant: the rendered file is corrected before it is remapped
ScriptRemixLate(f) ==
  << CmakeStmt, MakeStmt, ArgvStmt, CpStmt(f), SoxRateStmt, RevolveStmt, DriverModelStmt,
     SoxRemixStmt, SoxNormStmt, AmixerVolumeStmt, AmixerSwitchStmt, AplayStmt, ExitStmt >>
\* variant: playback is issued before the mixer is set
ScriptPlayEarly(f) ==
  << CmakeStmt, MakeStmt, ArgvStmt, CpStmt(f), SoxRateStmt, RevolveStmt, SoxRemixStmt,
     DriverModelStmt, SoxNormStmt, AplayStmt, AmixerVolumeStmt, AmixerSwitchStmt, ExitStmt >>
\* variant: the argument is read before anything is built
ScriptArgvFirst(f) ==
  << ArgvStmt, CmakeStmt, MakeStmt, CpStmt(f), SoxRateStmt, RevolveStmt, SoxRemixStmt,
     DriverModelStmt, SoxNormStmt, AmixerVolumeStmt, AmixerSwitchStmt, AplayStmt, ExitStmt >>
\* the statements of the module body, in program order; f is sys.argv[1]
Script(f) ==
  << CmakeStmt, MakeStmt, ArgvStmt, CpStmt(f), SoxRateStmt, RevolveStmt, SoxRemixStmt,
     DriverModelStmt, SoxNormStmt, AmixerVolumeStmt, AmixerSwitchStmt, AplayStmt, ExitStmt >>

(* ------------------------------ run() ---------------------------------- *)
\* what os.system returns for a child that exits with code c (wait status)
WaitStatus(c) == c * 256
\* what os.system returns when the child cannot be created
LaunchFailed == -1
\* variant: run() without the check of the status
AssertIgnored(status) == TRUE
\* the condition of the assert in run()
AssertHolds(status) == 0 = status
\* argument of sys.exit on the last line
NormalExit == 0
\* variant: the failure is swallowed and the script ends as on the last line
UncaughtExitAsNormal == NormalExit
\* exit code of the interpreter after an uncaught exception
UncaughtExit == 1
\* line of the assert inside run()
AssertLine == 24
\* statement executed after statement i completes
NextIp(i) == i + 1

ExitCodes == 0..MaxExitCode \cup {127}

(* ------------------------------ audio ---------------------------------- *)
Channel(v) == [t \in 1..NumSamples |-> v * t]
Silence(n) == [c \in 1..n |-> Channel(0)]
OneHot(h, v) == [c \in 1..SynthChannels |-> IF c = h THEN Channel(v) ELSE Channel(0)]
Ramp == [c \in 1..SynthChannels |-> Channel(c)]
\* the renderings of ./build/revolve the model distinguishes
SynthOutputs ==
  {Silence(SynthChannels), Ramp}
    \cup {OneHot(h, v) : h \in 1..SynthChannels, v \in ((-MaxAmp)..MaxAmp) \ {0}}

\* variant: the fraction of the multiplier is not scaled
Volume10Unscaled(e) == e.whole + e.tenth
\* volume multiplier of a remix entry, in tenths
Volume10(e) == e.whole * 10 + e.tenth

RECURSIVE MixSample(_, _, _)
MixSample(entries, in, t) ==
  IF entries = <<>> THEN 0
  ELSE (Volume10(Head(entries)) * in[Head(entries).ch][t]) \div 10
         + MixSample(Tail(entries), in, t)

\* sox remix: one output channel per out-spec
Remix(spec, in) ==
  [d \in 1..Len(spec) |-> [t \in 1..NumSamples |-> MixSample(spec[d], in, t)]]

\* sox remix refuses a channel number beyond the input's channels
RemixAccepts(spec, nIn) ==
  \A d \in 1..Len(spec) : \A j \in 1..Len(spec[d]) : spec[d][j].ch \in 1..nIn

(* ------------------------------ files ---------------------------------- *)
\* data = <<>> where the samples are not tracked
Absent == [st |-> "absent", by |-> 0, chans |-> 0, data |-> <<>>]
Leftover == [st |-> "stale", by |-> 0, chans |-> 0, data |-> <<>>]
Recording == [st |-> "source", by |-> 0, chans |-> 2, data |-> <<>>]
\* a recording that is not stereo
MonoRecording == [st |-> "source", by |-> 0, chans |-> 1, data |-> <<>>]
Valid(i, chans, data) == [st |-> "valid", by |-> i, chans |-> chans, data |-> data]
Partial(i) == [st |-> "partial", by |-> i, chans |-> 0, data |-> <<>>]

VARIABLES
  remix,     \* the remix argument of the sox command of line 50
  argv,      \* sys.argv[1:]: <<>> or <<path>>
  file,      \* the variable file of line 34; "" before it is assigned
  ip,        \* index in Script of the statement being executed
  pc,        \* "ready": about to execute Script[ip]; "system": inside os.system; "done"
  started,   \* tools whose command os.system has started, in order
  exited,    \* [tool, status] of every os.system call that returned, in order
  stdout,    \* what print wrote
  stderr,    \* the traceback of an uncaught exception
  exitCode,  \* exit code of the interpreter; -1 while it runs
  art,       \* the files at Locations
  dev,       \* values this run wrote to the mixer controls of the interface
  played     \* what aplay sent to the device

vars == <<remix, argv, file, ip, pc, started, exited, stdout, stderr, exitCode, art, dev, played>>

\* the script as the interpreter sees it: the cp command is built from file
Prog == Script(file)
Stmt == Prog[ip]

\* the state in which the interpreter starts the module body
Start ==
  /\ argv \in {<<>>} \cup {<<p>> : p \in SourcePaths}
  /\ file = ""
  /\ ip = 1
  /\ pc = "ready"
  /\ started = <<>>
  /\ exited = <<>>
  /\ stdout = <<>>
  /\ stderr = <<>>
  /\ exitCode = -1
  /\ art \in [Locations -> {Absent, Leftover, Recording, MonoRecording}]
  /\ art[UserWav] \in {Absent, Recording, MonoRecording}
  /\ \A l \in ArtifactLocs :
       art[l] \in (IF argv = <<l>> THEN {Absent, Recording, MonoRecording} ELSE {Absent, Leftover})
  /\ dev = [volume |-> <<>>, switch |-> <<>>]
  /\ played = <<>>

\* the script as written
Init == remix = RemixSpec /\ Start

(* ------------------------------ run() steps ---------------------------- *)
\* variant: the progress line leaves the command out
ExecutingBare(tool) == [fmt |-> "Executing", cmd |-> ""]
Executing(tool) == [fmt |-> "Executing", cmd |-> tool]
Completed(tool) == [fmt |-> "Completed", cmd |-> tool]
\* the traceback names the failing assert and the module line that called run()
Traceback(exc, line, caller) == [exc |-> exc, line |-> line, caller |-> caller]

\* variant: run() that calls the command again after a failure
ReturnedRetry(status, out) ==
  /\ exited' = Append(exited, [tool |-> Stmt.tool, status |-> status])
  /\ stdout' = IF AssertHolds(status) THEN Append(out, Completed(Stmt.tool)) ELSE out
  /\ ip' = IF AssertHolds(status) THEN NextIp(ip) ELSE ip
  /\ pc' = "ready"
  /\ UNCHANGED <<stderr, exitCode>>
\* os.system returned status: the assert of run(), then the second print
Returned(status, out) ==
  /\ exited' = Append(exited, [tool |-> Stmt.tool, status |-> status])
  /\ IF AssertHolds(status)
       THEN /\ stdout' = Append(out, Completed(Stmt.tool))
            /\ ip' = NextIp(ip)
            /\ pc' = "ready"
            /\ UNCHANGED <<stderr, exitCode>>
       ELSE /\ stdout' = out
            /\ stderr' = Append(stderr, Traceback("AssertionError", AssertLine, Stmt.line))
            /\ exitCode' = UncaughtExit
            /\ pc' = "done"
            /\ UNCHANGED ip

\* run(str): the first print, then os.system starts the shell command
RunCall ==
  /\ pc = "ready"
  /\ Stmt.op = "run"
  /\ stdout' = Append(stdout, Executing(Stmt.tool))
  /\ started' = Append(started, Stmt.tool)
  /\ pc' = "system"
  /\ UNCHANGED <<remix, argv, file, ip, exited, stderr, exitCode, art, dev, played>>

\* run(str) when os.system cannot create the child process
RunCallLaunchFails ==
  /\ pc = "ready"
  /\ Stmt.op = "run"
  /\ Returned(LaunchFailed, Append(stdout, Executing(Stmt.tool)))
  /\ UNCHANGED <<remix, argv, file, started, art, dev, played>>

\* file = sys.argv[1]; print("playing", file)
ReadArgv ==
  /\ pc = "ready"
  /\ Stmt.op = "argv"
  /\ IF argv = <<>>
       THEN /\ stderr' = Append(stderr, Traceback("IndexError", Stmt.line, Stmt.line))
            /\ exitCode' = UncaughtExit
            /\ pc' = "done"
            /\ UNCHANGED <<file, ip, stdout>>
       ELSE /\ file' = argv[1]
            /\ stdout' = Append(stdout, [fmt |-> "playing", cmd |-> argv[1]])
            /\ ip' = NextIp(ip)
            /\ UNCHANGED <<pc, stderr, exitCode>>
  /\ UNCHANGED <<remix, argv, started, exited, art, dev, played>>

\* sys.exit(0)
SysExit ==
  /\ pc = "ready"
  /\ Stmt.op = "exit"
  /\ exitCode' = NormalExit
  /\ pc' = "done"
  /\ UNCHANGED <<remix, argv, file, ip, started, exited, stdout, stderr, art, dev, played>>

(* ------------------------ the external commands ------------------------ *)
Running(tools) == pc = "system" /\ Stmt.tool \in tools

\* a tool given a missing input file fails
InputsExist == \A l \in Stmt.reads : art[l].st # "absent"

TheInput == CHOOSE l \in Stmt.reads : TRUE
TheOutput == CHOOSE l \in Stmt.writes : TRUE

\* variant: an abort that removes the intermediate files
FailWritesCleanup ==
  art' = [l \in Locations |-> IF l \in ArtifactLocs THEN Absent ELSE art[l]]
\* a failing tool leaves its own output file alone or half written
FailWrites ==
  \/ art' = art
  \/ art' = [l \in Locations |-> IF l \in Stmt.writes THEN Partial(ip) ELSE art[l]]

\* cmake and make: what they build is not tracked
BuildExits ==
  /\ Running({"cmake", "make"})
  /\ \E c \in ExitCodes : Returned(WaitStatus(c), stdout)
  /\ UNCHANGED <<remix, argv, file, started, art, dev, played>>

\* cp "<file>" /tmp/input.wav
CpExits ==
  /\ Running({"cp"})
  /\ \E c \in ExitCodes :
       /\ c = 0 => InputsExist /\ TheInput # TheOutput
       /\ Returned(WaitStatus(c), stdout)
       /\ IF c = 0
            THEN art' = [art EXCEPT ![TheOutput] = Valid(ip, art[TheInput].chans, art[TheInput].data)]
            ELSE IF TheInput = TheOutput THEN art' = art ELSE FailWrites
  /\ UNCHANGED <<remix, argv, file, started, dev, played>>

\* sox rate/trim/gain, driver_model, sox treble/norm: one file in, one file
\* out with the same number of channels; the samples are not tracked
FilterExits ==
  /\ Running({"sox_rate", "driver_model", "sox_norm"})
  /\ \E c \in ExitCodes :
       /\ c = 0 => InputsExist
       /\ Returned(WaitStatus(c), stdout)
       /\ IF c = 0
            THEN art' = [art EXCEPT ![TheOutput] = Valid(ip, art[TheInput].chans, <<>>)]
            ELSE FailWrites
  /\ UNCHANGED <<remix, argv, file, started, dev, played>>

\* the input ./build/revolve takes: a stereo file
RevolveAccepts(nIn) == nIn = 2

\* ./build/revolve: stereo in, SynthChannels channels out
RevolveExits ==
  /\ Running({"revolve"})
  /\ \E c \in ExitCodes :
       /\ c = 0 => InputsExist /\ RevolveAccepts(art[TheInput].chans)
       /\ Returned(WaitStatus(c), stdout)
       /\ IF c = 0
            THEN \E w \in SynthOutputs :
                   art' = [art EXCEPT ![TheOutput] = Valid(ip, SynthChannels, w)]
            ELSE FailWrites
  /\ UNCHANGED <<remix, argv, file, started, dev, played>>

\* sox ... remix <remix>
SoxRemixExits ==
  /\ Running({"sox_remix"})
  /\ \E c \in ExitCodes :
       /\ c = 0 => InputsExist /\ RemixAccepts(remix, art[TheInput].chans)
       /\ Returned(WaitStatus(c), stdout)
       /\ IF c = 0
            THEN art' = [art EXCEPT ![TheOutput] =
                           Valid(ip, Len(remix), Remix(remix, art[TheInput].data))]
            ELSE FailWrites
  /\ UNCHANGED <<remix, argv, file, started, dev, played>>

\* amixer cset ... 'UMC1820 Output Playback Volume' <VolumeValues>
AmixerVolumeExits ==
  /\ Running({"amixer_volume"})
  /\ \E c \in ExitCodes :
       /\ Returned(WaitStatus(c), stdout)
       /\ dev' = IF c = 0 THEN [dev EXCEPT !.volume = VolumeValues] ELSE dev
  /\ UNCHANGED <<remix, argv, file, started, art, played>>

\* amixer cset ... 'UMC1820 Output Playback Switch' <SwitchValues>
AmixerSwitchExits ==
  /\ Running({"amixer_switch"})
  /\ \E c \in ExitCodes :
       /\ Returned(WaitStatus(c), stdout)
       /\ dev' = IF c = 0 THEN [dev EXCEPT !.switch = SwitchValues] ELSE dev
  /\ UNCHANGED <<remix, argv, file, started, art, played>>

\* aplay -D 'hw:CARD=UMC1820,DEV=0' /tmp/down3-norm.wav
AplayExits ==
  /\ Running({"aplay"})
  /\ \E c \in ExitCodes :
       /\ c = 0 => InputsExist
       /\ Returned(WaitStatus(c), stdout)
       /\ played' = IF c = 0
                      THEN Append(played, [wav |-> art[TheInput], volume |-> dev.volume,
                                           switch |-> dev.switch])
                      ELSE played
  /\ UNCHANGED <<remix, argv, file, started, art, dev>>

\* variant: run() gives up on a command that is still running and goes on
RunTimesOut ==
  /\ pc = "system"
  /\ pc' = "ready"
  /\ ip' = NextIp(ip)
  /\ UNCHANGED <<remix, argv, file, started, exited, stdout, stderr, exitCode, art, dev, played>>
NextWithTimeout ==
  \/ RunCall
  \/ RunCallLaunchFails
  \/ ReadArgv
  \/ SysExit
  \/ BuildExits
  \/ CpExits
  \/ FilterExits
  \/ RevolveExits
  \/ SoxRemixExits
  \/ AmixerVolumeExits
  \/ AmixerSwitchExits
  \/ AplayExits
  \/ RunTimesOut

Next ==
  \/ RunCall
  \/ RunCallLaunchFails
  \/ ReadArgv
  \/ SysExit
  \/ BuildExits
  \/ CpExits
  \/ FilterExits
  \/ RevolveExits
  \/ SoxRemixExits
  \/ AmixerVolumeExits
  \/ AmixerSwitchExits
  \/ AplayExits

Spec == Init /\ [][Next]_vars

\* the interpreter keeps executing and every started command exits
FairSpec == Spec /\ WF_vars(Next)

\* the script with any of the remix arguments on line 50
InitAnyMatrix == remix \in Matrices /\ Start
SpecAnyMatrix == InitAnyMatrix /\ [][Next]_vars

TypeOK ==
  /\ ip \in 1..Len(Prog)
  /\ pc \in {"ready", "system", "done"}
  /\ exitCode \in {-1, NormalExit, UncaughtExit}

(* ------------------------------ properties ----------------------------- *)
Failure(j) == exited[j].status # 0
SomeFailure == \E j \in 1..Len(exited) : Failure(j)
NumCommands == Len(Script(UserWav)) - 2
AllSucceeded == Len(exited) = NumCommands /\ \A j \in 1..Len(exited) : ~Failure(j)
ExitedOk(tool) == \E j \in 1..Len(exited) : exited[j].tool = tool /\ exited[j].status = 0
Zero == [t \in 1..NumSamples |-> 0]

\* C1: a command is started only when every earlier command has returned
\* status 0; after a command that returns another status (or cannot be
\* launched) nothing more is started and the run ends with a fatal result.
FailFast ==
  /\ \A i \in 1..Len(started) :
       /\ Len(exited) >= i - 1
       /\ \A j \in 1..(i - 1) : exited[j].tool = started[j] /\ exited[j].status = 0
  /\ \A j \in 1..Len(exited) :
       Failure(j) => /\ j = Len(exited)
                     /\ Len(started) <= j
                     /\ pc = "done"
                     /\ exitCode \notin {-1, 0}
FailFastWitness ==
  /\ Len(exited) >= 3
  /\ Failure(Len(exited))
  /\ Len(started) = Len(exited)

\* C2: the commands started in a run form a prefix of the order cmake, make,
\* cp, sox rate, revolve, sox remix, driver_model, sox norm, amixer volume,
\* amixer switch, aplay, and a command is started only when no other runs.
ClaimedOrder ==
  << "cmake", "make", "cp", "sox_rate", "revolve", "sox_remix", "driver_model",
     "sox_norm", "amixer_volume", "amixer_switch", "aplay" >>
FixedOrder ==
  /\ Len(started) <= Len(ClaimedOrder)
  /\ started = SubSeq(ClaimedOrder, 1, Len(started))
  /\ pc = "system" => Len(exited) = Len(started) - 1
  /\ pc # "system" => Len(exited) >= Len(started)
FixedOrderWitness == started = ClaimedOrder /\ pc = "done" /\ exitCode = 0

\* C3: aplay is started only when both amixer commands have returned 0 and
\* the device holds the volume and the switch values of this run; after a
\* failed amixer command aplay is never started.
PlayOnlyCalibrated ==
  /\ (\E i \in 1..Len(started) : started[i] = "aplay")
       => /\ ExitedOk("amixer_volume")
          /\ ExitedOk("amixer_switch")
          /\ dev.volume = VolumeValues
          /\ dev.switch = SwitchValues
  /\ (\E j \in 1..Len(exited) :
        exited[j].tool \in {"amixer_volume", "amixer_switch"} /\ Failure(j))
       => /\ \A i \in 1..Len(started) : started[i] # "aplay"
          /\ played = <<>>
          /\ pc = "done"
PlayOnlyCalibratedWitness ==
  /\ pc = "system"
  /\ Stmt.tool = "aplay"

\* C4 as stated: the exit code is 0 exactly when every command succeeded, and
\* after a failure it is the exit status of the failing command.
ExitCodePropagated ==
  pc = "done" =>
    /\ exitCode = 0 <=> AllSucceeded
    /\ SomeFailure => WaitStatus(exitCode) = exited[Len(exited)].status
\* C4 amended: the exit code is 0 exactly when every command succeeded, and
\* after a failure it is 1 whatever status the failing command returned.
ExitCodeOne ==
  pc = "done" =>
    /\ exitCode = 0 <=> AllSucceeded
    /\ SomeFailure => exitCode = 1
ExitCodeOneWitness ==
  /\ pc = "done"
  /\ SomeFailure
  /\ exited[Len(exited)].status = WaitStatus(2)
  /\ exitCode = 1

\* what the run wrote to its two output streams
Output == {stdout[i] : i \in 1..Len(stdout)} \cup {stderr[i] : i \in 1..Len(stderr)}
\* C5 as stated: after a failure the output names the failing command and
\* carries the status it returned.
FailureReported ==
  SomeFailure =>
    /\ \E m \in Output : "cmd" \in DOMAIN m /\ m.cmd = exited[Len(exited)].tool
    /\ \E m \in Output : "status" \in DOMAIN m /\ m.status = exited[Len(exited)].status
\* C5 amended: after a failure the last line printed is the Executing line of
\* the failing command and the traceback is the AssertionError of run()
\* called from the line of that command; no status is printed.
FailingCommandReported ==
  SomeFailure =>
    /\ stdout # <<>>
    /\ stdout[Len(stdout)] = [fmt |-> "Executing", cmd |-> exited[Len(exited)].tool]
    /\ stderr = <<[exc |-> "AssertionError", line |-> 24, caller |-> Stmt.line]>>
    /\ Stmt.tool = exited[Len(exited)].tool
    /\ \A m \in Output : "status" \notin DOMAIN m
FailingCommandReportedWitness ==
  /\ SomeFailure
  /\ exited[Len(exited)].tool = "revolve"
  /\ exited[Len(exited)].status = WaitStatus(127)

\* C6: in the step in which a command fails and the run aborts, every file
\* written by an earlier statement of the run holds what that statement wrote
\* and is left as it is.
Aborting == pc # "done" /\ pc' = "done" /\ exitCode' # 0
ArtifactsUntouched ==
  [][Aborting =>
       \A i \in 1..(ip - 1) : \A l \in Prog[i].writes :
         /\ art[l].st = "valid"
         /\ art[l].by = i
         /\ art'[l] = art[l]]_vars
ArtifactsUntouchedWitness ==
  /\ pc = "done"
  /\ exitCode # 0
  /\ Stmt.tool = "driver_model"
  /\ art[Down3ModWav].st = "partial"
  /\ art[Down3_20Wav].st = "valid"
  /\ art[SpeakersWav].st = "valid"

\* C7: while a command runs, every file it reads is the recording named on
\* the command line or was written, at that very location, by an earlier
\* statement of this run whose command returned 0; the built executables are
\* used only after cmake and make returned 0.
InputsProduced ==
  pc = "system" =>
    /\ \A l \in Stmt.reads :
         \/ Stmt.tool = "cp" /\ l = file /\ art[l].st \in {"source", "absent"}
         \/ /\ art[l].st = "valid"
            /\ art[l].by \in 1..(ip - 1)
            /\ l \in Prog[art[l].by].writes
            /\ ExitedOk(Prog[art[l].by].tool)
    /\ Stmt.uses # {} => ExitedOk("cmake") /\ ExitedOk("make")
InputsProducedWitness ==
  /\ pc = "system"
  /\ Stmt.tool = "driver_model"
  /\ file = DownDryWav

\* C8 as stated: the remapped file has 20 channels, channels 1-4 and 13-16
\* are zero and the others are the synthesis channels in order.
RemapFourSilent ==
  art[Down3_20Wav].st = "valid" =>
    LET out == art[Down3_20Wav].data
        in == art[SpeakersWav].data
    IN /\ Len(out) = 20
       /\ \A d \in (1..4) \cup (13..16) : out[d] = Zero
       /\ \A d \in 5..12 : out[d] = in[d - 4]
       /\ \A d \in 17..20 : out[d] = in[d - 8]
\* C8 amended: the remapped file has 20 channels, channels 1-2 and 11-12 are
\* zero, channels 3-10 are synthesis channels 1-8 and channels 13-20 are
\* synthesis channels 9-16, sample for sample.
RemapTwoSilent ==
  art[Down3_20Wav].st = "valid" =>
    LET out == art[Down3_20Wav].data
        in == art[SpeakersWav].data
    IN /\ Len(out) = 20
       /\ art[Down3_20Wav].chans = 20
       /\ Len(in) = 16
       /\ \A d \in {1, 2, 11, 12} : out[d] = Zero
       /\ \A d \in 3..10 : out[d] = in[d - 2]
       /\ \A d \in 13..20 : out[d] = in[d - 4]
RemapTwoSilentWitness ==
  /\ art[Down3_20Wav].st = "valid"
  /\ art[SpeakersWav].data = Ramp

\* C9: the volume command and the switch command carry as many values as
\* the played file has channels.
CalibrationPerChannel ==
  played # <<>> =>
    /\ Len(played[1].volume) = Len(played[1].switch)
    /\ Len(played[1].volume) = played[1].wav.chans

\* C10: at the end of a run the device holds all the settings of the run or
\* none of them.
CalibrationAtomic ==
  pc = "done" =>
    \/ dev.volume = VolumeValues /\ dev.switch = SwitchValues
    \/ dev.volume = <<>> /\ dev.switch = <<>>

\* a remap matrix as the data model wants it: every source among the
\* rendered channels and no (source, destination) pair twice
ValidMatrix(m) ==
  /\ \A d \in 1..Len(m) : \A j \in 1..Len(m[d]) : m[d][j].ch \in 1..SynthChannels
  /\ \A d \in 1..Len(m) : \A j, k \in 1..Len(m[d]) : m[d][j].ch = m[d][k].ch => j = k

TimesStarted(tool) == Cardinality({i \in 1..Len(started) : started[i] = tool})

\* C12: no command is started twice in a run, a command that failed is not
\* started again, and a run that ends with exit code 0 has started every
\* command exactly once.
NoRetries ==
  /\ \A i, j \in 1..Len(started) : started[i] = started[j] => i = j
  /\ \A j \in 1..Len(exited) : Failure(j) => TimesStarted(exited[j].tool) <= 1
  /\ (pc = "done" /\ exitCode = 0)
       => \A k \in 1..Len(ClaimedOrder) : TimesStarted(ClaimedOrder[k]) = 1
NoRetriesWitness ==
  /\ pc = "done"
  /\ SomeFailure
  /\ exited[Len(exited)].tool = "sox_norm"
  /\ TimesStarted("sox_norm") = 1

\* C13: after a run that ends with exit code 0 every intermediate file has
\* been written by this run: input and down-dry with 2 channels, the
\* rendering with 16, and the remapped, corrected and normalised files with
\* the same 20 channels.
ArtifactsComplete ==
  (pc = "done" /\ exitCode = 0) =>
    /\ \A l \in ArtifactLocs : art[l].st = "valid"
    /\ art[InputWav].chans = 2
    /\ art[DownDryWav].chans = 2
    /\ art[SpeakersWav].chans = 16
    /\ art[Down3_20Wav].chans = 20
    /\ art[Down3ModWav].chans = art[Down3_20Wav].chans
    /\ art[Down3NormWav].chans = art[Down3_20Wav].chans
ArtifactsCompleteWitness ==
  /\ pc = "done"
  /\ exitCode = 0
  /\ argv = <<UserWav>>
  /\ art[Down3NormWav].chans = 20

Writers(l) == {i \in 1..Len(Prog) : l \in Prog[i].writes}
\* a file written by this run is left as it is by every later step
NeverRewritten == \A l \in ArtifactLocs : art[l].st = "valid" => art'[l] = art[l]

\* C14 as stated: every artifact location is written by exactly one
\* statement, no statement writes a location it reads, and a file written by
\* this run is never changed afterwards.
WriteOnce ==
  /\ [](/\ \A l \in ArtifactLocs : Cardinality(Writers(l)) = 1
        /\ \A i \in 1..Len(Prog) : Prog[i].writes \cap Prog[i].reads = {})
  /\ [][NeverRewritten]_vars
\* C14 amended: as stated, except that with /tmp/input.wav as the source
\* path the cp statement names that file as input and as output; cp then
\* fails and changes no file.
WriteOnceButSource ==
  /\ [](/\ \A l \in ArtifactLocs : Cardinality(Writers(l)) = 1
        /\ \A i \in 1..Len(Prog) :
             Prog[i].writes \cap Prog[i].reads # {}
               => Prog[i].tool = "cp" /\ file = "/tmp/input.wav")
  /\ [][/\ NeverRewritten
        /\ (pc = "system" /\ Stmt.tool = "cp" /\ file = "/tmp/input.wav")
             => art' = art /\ pc' = "done" /\ exitCode' # 0]_vars
WriteOnceButSourceWitness ==
  /\ pc = "done"
  /\ exitCode = 0
  /\ file = DownDryWav
  /\ art[DownDryWav].st = "valid"
  /\ art[DownDryWav].by = 5

\* outputs of matrix m fed by input channel c
FedBy(m, c) == {d \in 1..Len(m) : \E j \in 1..Len(m[d]) : m[d][j].ch = c}

\* C15: the remix matrix sox is given uses only inputs 1..16, has no
\* (source, destination) pair twice and at most one source per output; each
\* of the 16 rendered channels feeds exactly one output with gain 1.0, in
\* the order of the inputs, and the remapped file handed to driver_model
\* carries each rendered channel on that output.
MatrixLossless ==
  /\ Stmt.tool = "sox_remix" =>
       /\ \A d \in 1..Len(remix) : \A j \in 1..Len(remix[d]) : remix[d][j].ch \in 1..16
       /\ \A d \in 1..Len(remix) : Len(remix[d]) <= 1
       /\ \A c \in 1..16 :
            /\ Cardinality(FedBy(remix, c)) = 1
            /\ \A d \in FedBy(remix, c) : Volume10(remix[d][1]) = 10
       /\ \A c \in 1..15 :
            \A d1 \in FedBy(remix, c), d2 \in FedBy(remix, c + 1) : d1 < d2
  /\ (Stmt.tool = "driver_model" /\ pc = "system") =>
       \A c \in 1..16 : \A d \in FedBy(remix, c) :
         art[Down3_20Wav].data[d] = art[SpeakersWav].data[c]
MatrixLosslessWitness ==
  /\ Stmt.tool = "driver_model"
  /\ pc = "system"
  /\ art[SpeakersWav].data = OneHot(16, 1)
  /\ art[Down3_20Wav].data[20] = Channel(1)

\* C16: when every started command exits, the run ends, with exit code 0
\* after playback or with a fatal result after the first failure; and while
\* a command runs the only step of the run is the return of that command,
\* so a command that never exits blocks the run with nothing started.
Termination ==
  /\ <>(/\ pc = "done"
        /\ \/ exitCode = 0 /\ played # <<>>
           \/ exitCode # 0 /\ (SomeFailure \/ argv = <<>>))
  /\ [][pc = "system" => started' = started /\ Len(exited') = Len(exited) + 1]_vars
TerminationWitness ==
  /\ pc = "done"
  /\ played # <<>>
  /\ Len(exited) = NumCommands

ArgvAfterBuild ==
  /\ file # "" => ExitedOk("cmake") /\ ExitedOk("make")
  /\ argv = <<>> =>
       /\ Len(started) <= 2
       /\ started = SubSeq(<<"cmake", "make">>, 1, Len(started))
       /\ \A l \in Locations : art[l].st \notin {"valid", "partial"}
       /\ dev = [volume |-> <<>>, switch |-> <<>>]
       /\ played = <<>>
       /\ pc = "done" => exitCode \notin {-1, 0}
       /\ (pc = "done" /\ ~SomeFailure)
            => /\ started = <<"cmake", "make">>
               /\ ExitedOk("cmake") /\ ExitedOk("make")
               /\ Len(stderr) = 1
               /\ stderr[1].exc = "IndexError"
ArgvAfterBuildWitness ==
  /\ argv = <<>>
  /\ pc = "done"
  /\ ~SomeFailure
  /\ started = <<"cmake", "make">>
  /\ exitCode = 1

====
